---- MODULE Spec2Model ----
(***************************************************************************)
(* A model of the podcast/music player: the rotary/mode switch debouncer   *)
(* (hardware.py), the persistent state store (state_manager.py), the mpv   *)
(* supervisor and its control channel (audio_player.py) and the controller *)
(* that ties them together (podcast_player.py).                            *)
(*                                                                         *)
(* Each component has its own specification over the shared variables:     *)
(*   SpecHW     HardwareController.read_state polled by the main loop      *)
(*   SpecChan   AudioPlayer._send_command called by the main loop and the  *)
(*              position thread, with the mpv process dying and restarting *)
(*   SpecStore  StateManager: update_position and save() step by step, by  *)
(*              the main loop and the position thread, and the shutdown    *)
(*   Spec       PodcastPlayer's main loop, the AudioPlayer it drives, the   *)
(*              position thread and the engine, on the in-memory document  *)
(*   SpecResume the main loop started on a state.json left by earlier runs *)
(*   SpecFeed   the main loop with the scheduled refresh of the episode    *)
(*              lists and mark_episode_completed                           *)
(*   SpecAudio  AudioPlayer's play, pause, stop and get_position called in *)
(*              any order                                                  *)
(*   SpecRoundTrip  StateManager called from one thread, saved and loaded  *)
(*   SpecPins   _read_rotary_raw on all levels of the 12 contact lines     *)
(*   SpecProcess  AudioPlayer's calls with the mpv process dying and play() *)
(*              restarting it                                              *)
(*   SpecMissing  the main loop and the engine on albums with missing      *)
(*              track files                                                *)
(*   SpecRefresh  the main loop, the scheduled refresh and the engine      *)
(***************************************************************************)
EXTENDS Integers, Sequences, FiniteSets, TLC

VARIABLES
    hardware,   \* HardwareController's fields
    hw_now,     \* time.time() as seen by read_state, in ms
    pins,       \* history: the GPIO levels read by the last poll
    samples,    \* history: the raw rotary samples of the last STABLE_READS polls
    reading,    \* the (mode, selection) tuple returned by the last read_state()
    chan,       \* AudioPlayer's channel side: _socket_lock, process, sampler flag
    thr,        \* per thread: where it is in _send_command / _track_position
    state,      \* StateManager.state: the in-memory document
    sm,         \* StateManager's other fields (_last_save_time)
    fs,         \* the directory of state.json: names, inodes and their contents,
                \* and the track files missing from the music folder
    wr,         \* per thread: where it is in save(), its open file and its text
    st_now,     \* time.time() as seen by the state manager, in ms
    player,     \* PodcastPlayer's fields and the locals of run()
    audio,      \* AudioPlayer's playback side: current_file, _is_paused, _is_idle
    engine,     \* mpv: the file loaded, time-pos, pause
    sampler,    \* the position thread: where it is in _track_position
    events,     \* history: commands sent and callbacks made by the last step
    ghost       \* history: the last position learned from the engine

hwvars == <<hardware, hw_now, pins, samples, reading>>
chanvars == <<chan, thr>>
storevars == <<state, sm, fs, wr, st_now>>
ctlvars == <<player, audio, engine, sampler, events, ghost>>
\* what the actions of one component leave alone
notHW == <<chanvars, storevars, ctlvars>>
notChan == <<hwvars, storevars, ctlvars>>
notStore == <<hwvars, chanvars, ctlvars>>
notCtl == <<hwvars, chanvars, sm, fs, wr, st_now>>
vars == <<hardware, hw_now, pins, samples, reading, chan, thr, state, sm, fs, wr, st_now,
          player, audio, engine, sampler, events, ghost>>

\* Python's None in a string-valued field
None == "None"
\* Python's None in an integer-valued field (no sample, no confirmation yet):
\* an integer that is no raw rotary value
NoValue == -2

(***************************************************************************)
(* hardware.py                                                             *)
(***************************************************************************)
STABLE_READS == 5
TRANSITION_TIMEOUT_MS == 1000
\* the main loop sleeps 0.1 s between two polls
POLL_MS == 100
\* number of rotary contact lines modelled (len(POSITION_PINS) is 12 in the source)
NumPins == 2
\* polls of POLL_MS each that fit into the modelled time window
MaxTicks == 12

LOW == 0
HIGH == 1

PAUSED == "paused"
PLAYING == "playing"
MUSIC_MODE == "music_mode"

\* a _read_rotary_raw that reports the first of several asserted lines
read_rotary_raw_FirstLow(lows) ==
    IF Cardinality(lows) = 0 THEN 0
    ELSE CHOOSE i \in lows : \A j \in lows : i <= j

\* _read_rotary_raw: lows is the set of contact lines that read GPIO.LOW
read_rotary_raw(lows) ==
    IF Cardinality(lows) = 1 THEN CHOOSE i \in lows : TRUE
    ELSE IF Cardinality(lows) = 0 THEN 0
    ELSE -1

\* a mode decoding that takes both lines asserted for music mode
decode_mode_MusicWins(pin_play, pin_music) ==
    IF pin_play = LOW /\ pin_music = HIGH THEN PLAYING
    ELSE IF pin_music = LOW THEN MUSIC_MODE
    ELSE PAUSED

\* the mode decoding of read_state
decode_mode(pin_play, pin_music) ==
    IF pin_play = LOW /\ pin_music = HIGH THEN PLAYING
    ELSE IF pin_play = HIGH /\ pin_music = LOW THEN MUSIC_MODE
    ELSE IF pin_play = HIGH /\ pin_music = HIGH THEN PAUSED
    ELSE PAUSED

StableCount_NoReset(hw, raw) == hw._stable_count + 1

\* the debounce counter: same sample as before counts up, another restarts at 1
StableCount(hw, raw) ==
    IF raw = hw._last_sample THEN hw._stable_count + 1 ELSE 1

IsStable_AnySign(count, raw) == count >= STABLE_READS /\ raw # 0

\* "Confirm stable reading"
IsStable(count, raw) == count >= STABLE_READS /\ raw > 0

\* "Valid position detected": the inner condition of the confirmation
MayConfirm(hw, raw, now) ==
    hw._last_confirm # raw \/ (now - hw._last_confirm_time > TRANSITION_TIMEOUT_MS)

\* the debounce part of read_state: the controller's fields after a poll that
\* sampled raw at time now
debounce(hw, raw, now) ==
    LET count == StableCount(hw, raw)
        h1 == [hw EXCEPT !._stable_count = count, !._last_sample = raw]
    IN  IF IsStable(count, raw) /\ MayConfirm(h1, raw, now)
        THEN [h1 EXCEPT !._last_confirm = raw,
                        !._last_confirm_time = now,
                        !.last_podcast_index = raw]
        ELSE h1

\* HardwareController.__init__
HardwareInit_NoDefault ==
    [last_podcast_index |-> NoValue,
     _stable_count |-> 0,
     _last_sample |-> NoValue,
     _last_confirm |-> NoValue,
     _last_confirm_time |-> 0]
HardwareInit ==
    [last_podcast_index |-> 1,
     _stable_count |-> 0,
     _last_sample |-> NoValue,
     _last_confirm |-> NoValue,
     _last_confirm_time |-> 0]

\* _setup_gpio: every input has a pull-up, so a line nothing asserts reads
\* HIGH; lows is the set of contact lines that read LOW
PinsInit == [pin_play |-> HIGH, pin_music |-> HIGH, lows |-> {}]

\* time.time() is seconds since the epoch: far more than the timeout after 0.0
HwStart == TRANSITION_TIMEOUT_MS + POLL_MS
HwEnd == HwStart + MaxTicks * POLL_MS

\* the time that passes between two polls: the loop's sleep, or a long handler
PollGaps == {POLL_MS, TRANSITION_TIMEOUT_MS + POLL_MS}

Push(h, x) == IF Len(h) < STABLE_READS THEN Append(h, x) ELSE Append(Tail(h), x)

\* one call of read_state() with GPIO available
ReadState ==
    \E pin_play \in {LOW, HIGH}, pin_music \in {LOW, HIGH},
       lows \in SUBSET (1..NumPins), gap \in PollGaps :
        LET raw == read_rotary_raw(lows)
            now == hw_now + gap
            hw == debounce(hardware, raw, now)
        IN  /\ now <= HwEnd
            /\ hw_now' = now
            /\ pins' = [pin_play |-> pin_play, pin_music |-> pin_music, lows |-> lows]
            /\ hardware' = hw
            /\ samples' = Push(samples, raw)
            /\ reading' = <<decode_mode(pin_play, pin_music), hw.last_podcast_index>>

NextHW == ReadState /\ UNCHANGED notHW

\* len(POSITION_PINS): the contact lines of the rotary switch
NumLines == 12

\* _read_rotary_raw alone: one contact line changes its level (the wiper
\* moves, a contact bounces) and the lines are read
ReadRotaryRaw ==
    \E line \in 1..NumLines :
        LET lows == IF line \in pins.lows THEN pins.lows \ {line}
                    ELSE pins.lows \cup {line}
        IN  /\ pins' = [pins EXCEPT !.lows = lows]
            /\ samples' = <<read_rotary_raw(lows)>>
            /\ UNCHANGED <<hardware, hw_now, reading>>

NextPins == ReadRotaryRaw /\ UNCHANGED notHW


(***************************************************************************)
(* audio_player.py: the control channel                                    *)
(***************************************************************************)
\* position threads that can be created within a run
MaxSamplers == 2

MainThread == 0
Samplers == 1..MaxSamplers
Threads == {MainThread} \cup Samplers
\* _socket_lock not held by any thread
Unlocked == -1

\* commands the main loop sends (play, pause/resume, get_position)
MainCommands == {"loadfile", "set_property", "get_property"}

ThreadInit(t) ==
    [pc |-> IF t = MainThread THEN "idle" ELSE IF t = 1 THEN "loop" ELSE "unborn",
     retry |-> TRUE,
     cmd |-> None,
     ret |-> None]

\* AudioPlayer.__init__: the lock is free, mpv runs, the first position thread runs
ChanInit ==
    [lock |-> Unlocked, process |-> "alive",
     _stop_position_tracking |-> FALSE, _position_thread |-> 1]

InSend(t) == thr[t].pc \in {"acquire", "io", "except", "restart"}

\* the mpv process exits on its own (crash, kill)
MpvDies ==
    /\ chan.process = "alive"
    /\ chan' = [chan EXCEPT !.process = "dead"]
    /\ UNCHANGED thr

\* the main loop calls _send_command(command) (retry defaults to True)
MainSend ==
    \E c \in MainCommands :
        /\ thr[MainThread].pc = "idle"
        /\ chan.process # "none"
        /\ thr' = [thr EXCEPT ![MainThread] =
                      [pc |-> "acquire", retry |-> TRUE, cmd |-> c, ret |-> None]]
        /\ UNCHANGED chan

\* play(): _ensure_process_alive() finds the process dead: stop the position
\* thread, then restart (outside the lock), then send loadfile
MainPlayEnsure ==
    /\ thr[MainThread].pc = "idle"
    /\ chan.process = "dead"
    /\ chan' = [chan EXCEPT !._stop_position_tracking = TRUE]
    /\ thr' = [thr EXCEPT ![MainThread] =
                  [pc |-> "restart", retry |-> TRUE, cmd |-> "loadfile", ret |-> None]]

\* _track_position: the while test
SamplerLoop(t) ==
    /\ thr[t].pc = "loop"
    /\ thr' = [thr EXCEPT ![t].pc =
                  IF chan._stop_position_tracking THEN "dead" ELSE "sleep"]
    /\ UNCHANGED chan

\* _track_position after time.sleep(5): get_position() when playing
SamplerWake(t) ==
    \E playing \in BOOLEAN :
        /\ thr[t].pc = "sleep"
        /\ thr' = [thr EXCEPT ![t] =
                      IF playing /\ chan.process # "none"
                      THEN [pc |-> "acquire", retry |-> TRUE,
                            cmd |-> "get_property", ret |-> None]
                      ELSE [@ EXCEPT !.pc = "loop"]]
        /\ UNCHANGED chan

\* a "with self._socket_lock" that does not wait for the lock
Acquire_NoWait(t) ==
    /\ thr[t].pc = "acquire"
    /\ chan' = [chan EXCEPT !.lock = t]
    /\ thr' = [thr EXCEPT ![t].pc = "io"]

\* "with self._socket_lock": threading.Lock is not reentrant
Acquire(t) ==
    /\ thr[t].pc = "acquire"
    /\ chan.lock = Unlocked
    /\ chan' = [chan EXCEPT !.lock = t]
    /\ thr' = [thr EXCEPT ![t].pc = "io"]

\* where a thread continues when _send_command has returned or raised
AfterSend(t, raised) ==
    IF thr[t].cmd = "quit" \/ raised
    THEN IF t = MainThread THEN "raised" ELSE "dead"
    ELSE IF t = MainThread THEN "idle" ELSE "loop"

\* leaving the with block releases the lock, whoever holds it
Leave(t, result, raised) ==
    /\ chan' = [chan EXCEPT !.lock = Unlocked,
                            !.process = IF thr[t].cmd = "quit" THEN "none" ELSE @]
    /\ thr' = [thr EXCEPT ![t] = [pc |-> AfterSend(t, raised), retry |-> TRUE,
                                  cmd |-> None, ret |-> result]]

\* connect, send, recv: a response, or socket.error / socket.timeout (2 s)
Io(t) ==
    \E ok \in BOOLEAN :
        /\ thr[t].pc = "io"
        /\ ok => chan.process = "alive"
        /\ IF ok
           THEN Leave(t, "response", FALSE)
           ELSE /\ thr' = [thr EXCEPT ![t].pc = "except"]
                /\ UNCHANGED chan

\* the except branch: "Retry once if process died", else return None
Except(t) ==
    /\ thr[t].pc = "except"
    /\ IF thr[t].retry /\ chan.process = "dead"
       THEN \* _ensure_process_alive: was_tracking, join(timeout=1)
            IF t = chan._position_thread
            THEN \* the thread joins itself: RuntimeError leaves the with block
                 /\ chan' = [chan EXCEPT !.lock = Unlocked,
                                         !._stop_position_tracking = TRUE]
                 /\ thr' = [thr EXCEPT ![t] = [pc |-> "dead", retry |-> TRUE,
                                               cmd |-> None, ret |-> None]]
            ELSE /\ chan' = [chan EXCEPT !._stop_position_tracking = TRUE]
                 /\ thr' = [thr EXCEPT ![t].pc = "restart", ![t].retry = FALSE]
       ELSE Leave(t, None, FALSE)

FreeSlots == {s \in Samplers : thr[s].pc \in {"unborn", "dead"}}

\* _start_mpv_process after the join: Popen, wait for the socket, start a new
\* position thread; then the caller sends its command (again)
Restart(t) ==
    \E started \in BOOLEAN :
        /\ thr[t].pc = "restart"
        /\ IF started
           THEN /\ FreeSlots # {}
                /\ LET s == CHOOSE x \in FreeSlots : \A y \in FreeSlots : x <= y
                   IN  /\ chan' = [chan EXCEPT !.process = "alive",
                                               !._stop_position_tracking = FALSE,
                                               !._position_thread = s]
                       /\ thr' = [thr EXCEPT ![t].pc = "acquire",
                                             ![s] = [ThreadInit(s) EXCEPT !.pc = "loop"]]
           ELSE \* socket not ready: cleanup() sends quit, then RuntimeError
                /\ chan' = [chan EXCEPT !._stop_position_tracking = TRUE]
                /\ thr' = [thr EXCEPT ![t].pc = "acquire", ![t].retry = TRUE,
                                      ![t].cmd = "quit"]

NextChan ==
    \/ MpvDies /\ UNCHANGED notChan
    \/ MainSend /\ UNCHANGED notChan
    \/ MainPlayEnsure /\ UNCHANGED notChan
    \/ \E t \in Samplers : SamplerLoop(t) /\ UNCHANGED notChan
    \/ \E t \in Samplers : SamplerWake(t) /\ UNCHANGED notChan
    \/ \E t \in Threads : Acquire(t) /\ UNCHANGED notChan
    \/ \E t \in Threads : Io(t) /\ UNCHANGED notChan
    \/ \E t \in Threads : Except(t) /\ UNCHANGED notChan
    \/ \E t \in Threads : Restart(t) /\ UNCHANGED notChan

(***************************************************************************)
(* state_manager.py                                                        *)
(***************************************************************************)
\* configured podcasts (len(config.podcasts)) and playback positions modelled
NumPodcasts == 2
MaxPos == 1
\* ticks of the state manager's clock that fit into the modelled time window
MaxStoreTicks == 4
\* save() is skipped when the last write is less than 1.0 s old
SAVE_THROTTLE_MS == 1000
\* AudioPlayer.cleanup: time.sleep(0.3) after the quit command; also the
\* granularity of the state manager's clock
QUIT_WAIT_MS == 300

\* albums configured in config.json
NumAlbums == 1

PodcastIds == 1..NumPodcasts
AlbumIds == 1..NumAlbums
Positions == 0..MaxPos

\* get_music: the entry created on first access
DefaultMusic ==
    [folder |-> NoValue, tracks |-> <<>>, current_track |-> 0,
     position |-> 0, completed |-> FALSE]

\* the document as loaded at start: podcast 1 has one downloaded episode with
\* a stored position, the other podcasts have none
Document(p) ==
    [podcasts |-> [i \in PodcastIds |->
        [episodes |-> IF i = 1 THEN <<[guid |-> 1, position |-> p]>> ELSE <<>>,
         current_index |-> 0]],
     music |-> [m \in AlbumIds |-> DefaultMusic]]

\* _create_default_state
DefaultState ==
    [podcasts |-> [i \in PodcastIds |-> [episodes |-> <<>>, current_index |-> 0]],
     music |-> [m \in AlbumIds |-> DefaultMusic]]

\* update_position: the mutation of the document (0-based episode_index)
update_position(doc, podcast_id, episode_index, position) ==
    IF 0 <= episode_index /\ episode_index < Len(doc.podcasts[podcast_id].episodes)
    THEN [doc EXCEPT !.podcasts[podcast_id].episodes[episode_index + 1].position = position]
    ELSE doc

\* a file's content: the two halves of the JSON text, each written or not.
\* A half is <<>> (no bytes) or <<d>> (the bytes of document d).
EmptyFile == <<<<>>, <<>>>>
FileOf(d) == <<<<d>>, <<d>>>>
IsComplete(content) == content[1] # <<>> /\ content[1] = content[2]

\* "if key not in d: d[key] = value"
WithDefault(d, key, value) ==
    IF key \in DOMAIN d THEN d
    ELSE [k \in DOMAIN d \cup {key} |-> IF k = key THEN value ELSE d[k]]

\* _validate_state: "Validate episodes" (guid defaults to "")
validate_episode(episode) ==
    WithDefault(WithDefault(episode, "position", 0), "guid", 0)

\* _validate_state: "Validate podcast entries"
validate_podcast(podcast_data) ==
    LET p1 == WithDefault(WithDefault(podcast_data, "episodes", <<>>), "current_index", 0)
    IN  [p1 EXCEPT !.episodes = [k \in DOMAIN @ |-> validate_episode(@[k])]]

\* a _validate_state that sets every episode's position to 0.0
validate_state_ResetsPositions(doc) ==
    [doc EXCEPT !.podcasts = [i \in DOMAIN @ |->
        [@[i] EXCEPT !.episodes = [k \in DOMAIN @ |-> [@[k] EXCEPT !.position = 0]]]]]

\* _validate_state
validate_state(doc) ==
    LET d1 == WithDefault(doc, "podcasts", DefaultState.podcasts)
    IN  [d1 EXCEPT !.podcasts = [i \in DOMAIN @ |-> validate_podcast(@[i])]]

\* _load_state: json.load of a complete text, validated, else the default state
load_state(content) ==
    IF IsComplete(content) THEN validate_state(content[1][1]) ELSE DefaultState

\* inodes of the directory (the state file, the temp file, one open file per thread)
NumInodes == 4
Inodes == 1..NumInodes
\* a name that does not exist, a thread with no open file
NoInode == 0

\* the threads that call into the state manager
Writers == {"main", "sampler"}

WriterInit == [pc |-> "idle", after |-> "idle", fd |-> NoInode, buf |-> <<>>]

\* missing: the <<album, filename>> of the track files that are listed but
\* are not in the music folder
FsInit(p) ==
    [file |-> 1, tmp |-> NoInode,
     data |-> [i \in Inodes |-> IF i = 1 THEN FileOf(Document(p)) ELSE EmptyFile],
     missing |-> {}]

\* the content a reader of state.json gets
StateFile == IF fs.file = NoInode THEN EmptyFile ELSE fs.data[fs.file]

\* audio.cleanup() has set _stop_position_tracking and joined the position thread
SamplerJoined == wr["main"].pc \in {"final_save", "done"} \/ wr["main"].after = "done"

\* an inode with no name and no open file is gone
Collect(f, w) ==
    [f EXCEPT !.data = [i \in Inodes |->
        IF i \in {f.file, f.tmp} \cup {w[t].fd : t \in Writers}
        THEN f.data[i] ELSE EmptyFile]]

\* save(): "Throttle saves (unless forced)"
Throttled_Never(force) == FALSE
Throttled(force) == ~force /\ st_now - sm._last_save_time < SAVE_THROTTLE_MS

\* thread t enters save(force) and continues at `after` when it returns
EnterSave(t, force, after) ==
    wr' = [wr EXCEPT ![t].pc = IF Throttled(force) THEN after ELSE "open",
                     ![t].after = after]

\* the state manager's clock advances
StoreTick ==
    /\ st_now + QUIT_WAIT_MS <= MaxStoreTicks * QUIT_WAIT_MS
    /\ st_now' = st_now + QUIT_WAIT_MS
    /\ UNCHANGED <<state, sm, fs, wr>>

\* a position callback (position thread) or _save_current_position (main
\* loop): update_position mutates the document and calls save()
UpdatePosition(t) ==
    \E position \in Positions :
        /\ wr[t].pc = "idle"
        /\ t = "sampler" => ~SamplerJoined
        /\ state' = update_position(state, 1, 0, position)
        /\ EnterSave(t, FALSE, "idle")
        /\ UNCHANGED <<sm, fs, st_now>>

\* set_last_check at the end of a scheduled refresh: save(force=True)
SetLastCheck ==
    /\ wr["main"].pc = "idle"
    /\ EnterSave("main", TRUE, "idle")
    /\ UNCHANGED <<state, sm, fs, st_now>>

FreeInode ==
    CHOOSE i \in Inodes :
        /\ i \notin {fs.file, fs.tmp} \cup {wr[t].fd : t \in Writers}
        /\ \A j \in Inodes :
            j \notin {fs.file, fs.tmp} \cup {wr[t].fd : t \in Writers} => i <= j

\* save(): open(temp_file, 'w') creates state.tmp or truncates the existing one
SaveOpen(t) ==
    /\ wr[t].pc = "open"
    /\ LET i == IF fs.tmp = NoInode THEN FreeInode ELSE fs.tmp
       IN  /\ fs' = [fs EXCEPT !.tmp = i, !.data[i] = EmptyFile]
           /\ wr' = [wr EXCEPT ![t].pc = "write", ![t].fd = i, ![t].buf = <<state>>]
    /\ UNCHANGED <<state, sm, st_now>>

\* save(): json.dump writes the first part of the text
SaveWrite(t) ==
    /\ wr[t].pc = "write"
    /\ fs' = [fs EXCEPT !.data[wr[t].fd][1] = wr[t].buf]
    /\ wr' = [wr EXCEPT ![t].pc = "close"]
    /\ UNCHANGED <<state, sm, st_now>>

\* save(): the rest of the text is written and the file is closed
SaveClose(t) ==
    /\ wr[t].pc = "close"
    /\ wr' = [wr EXCEPT ![t].pc = "rename", ![t].fd = NoInode]
    /\ fs' = Collect([fs EXCEPT !.data[wr[t].fd][2] = wr[t].buf], wr')
    /\ UNCHANGED <<state, sm, st_now>>

\* save(): temp_file.replace(state_file), then _last_save_time = time.time();
\* a temp file that is gone raises, which save() logs
SaveRename(t) ==
    /\ wr[t].pc = "rename"
    /\ wr' = [wr EXCEPT ![t].pc = wr[t].after, ![t].buf = <<>>]
    /\ IF fs.tmp # NoInode
       THEN /\ fs' = Collect([fs EXCEPT !.file = fs.tmp, !.tmp = NoInode], wr')
            /\ sm' = [sm EXCEPT !._last_save_time = st_now]
       ELSE UNCHANGED <<fs, sm>>
    /\ UNCHANGED <<state, st_now>>

\* PodcastPlayer.cleanup: _save_current_position() stores the position the
\* player reports
CleanupSavePosition ==
    \E position \in Positions :
        /\ wr["main"].pc = "idle"
        /\ state' = update_position(state, 1, 0, position)
        /\ EnterSave("main", FALSE, "audio_cleanup")
        /\ UNCHANGED <<sm, fs, st_now>>

\* PodcastPlayer.cleanup: audio.cleanup() joins the position thread, sends
\* quit and sleeps 0.3 s; hardware.cleanup(), led.cleanup()
CleanupAudio ==
    /\ wr["main"].pc = "audio_cleanup"
    /\ st_now + QUIT_WAIT_MS <= MaxStoreTicks * QUIT_WAIT_MS
    /\ st_now' = st_now + QUIT_WAIT_MS
    /\ wr' = [wr EXCEPT !["main"].pc = "final_save"]
    /\ UNCHANGED <<state, sm, fs>>

\* PodcastPlayer.cleanup: self.state.save()
CleanupFinalSave ==
    /\ wr["main"].pc = "final_save"
    /\ EnterSave("main", FALSE, "done")
    /\ UNCHANGED <<state, sm, fs, st_now>>

\* the process is killed and started again: StateManager.__init__ loads the file
Restart_Store ==
    /\ \E t \in Writers : wr[t].pc \notin {"idle", "done"}
    /\ state' = load_state(StateFile)
    /\ sm' = [sm EXCEPT !._last_save_time = st_now]
    /\ wr' = [t \in Writers |-> WriterInit]
    /\ fs' = Collect(fs, wr')
    /\ UNCHANGED st_now

NextStore ==
    \/ StoreTick /\ UNCHANGED notStore
    \/ \E t \in Writers : UpdatePosition(t) /\ UNCHANGED notStore
    \/ SetLastCheck /\ UNCHANGED notStore
    \/ \E t \in Writers : SaveOpen(t) /\ UNCHANGED notStore
    \/ \E t \in Writers : SaveWrite(t) /\ UNCHANGED notStore
    \/ \E t \in Writers : SaveClose(t) /\ UNCHANGED notStore
    \/ \E t \in Writers : SaveRename(t) /\ UNCHANGED notStore
    \/ CleanupSavePosition /\ UNCHANGED notStore
    \/ CleanupAudio /\ UNCHANGED notStore
    \/ CleanupFinalSave /\ UNCHANGED notStore
    \/ Restart_Store /\ UNCHANGED notStore

(***************************************************************************)
(* podcast_player.py and audio_player.py: the controller, the supervisor   *)
(* and the engine behind the control channel                               *)
(***************************************************************************)
\* tracks found in an album folder
NumTracks == 2
\* commands of one handler that a control-channel outage can hit
MaxOutage == 4
\* switch_to_podcast: pos = max(0, ep["position"] - 2)
REWIND_BUFFER == 2

\* knob positions read from the rotary switch
Selections == 1..NumPodcasts
Modes == {PAUSED, PLAYING, MUSIC_MODE}

\* the readings read_state() can return: (mode, last_podcast_index), or
\* (PAUSED, None) when the GPIO read fails
Readings == Modes \X Selections

\* what a position is stored under: an episode of a podcast, a track of an album
NoTarget == <<"none", NoValue, NoValue>>
PodcastTarget(podcast_id, episode_index) == <<"podcast", podcast_id, episode_index>>
MusicTarget(music_id, track_index) == <<"music", music_id, track_index>>

\* music_manager.get_album_for_position: the album folder of a knob position
HasAlbum(knob_position) == knob_position \in AlbumIds
AlbumFolder(knob_position) == knob_position
\* music_manager.scan_tracks: the mp3 files of the folder, sorted
scan_tracks(album) == [i \in 1..NumTracks |-> i]
\* path.exists() of an episode file, track_path.exists() of a track
EpisodeExists(podcast_id, episode_index) == TRUE
TrackExists(album, filename) == <<album, filename>> \notin fs.missing

\* update_music_position: the position of the album's current track
update_music_position(doc, music_id, track_index, position) ==
    [doc EXCEPT !.music[music_id].current_track = track_index,
                !.music[music_id].position = position]

\* save_music: full replace of the album's entry
save_music(doc, music_id, folder, tracks, track_idx, position, completed) ==
    [doc EXCEPT !.music[music_id] =
        [folder |-> folder, tracks |-> tracks, current_track |-> track_idx,
         position |-> position, completed |-> completed]]

\* mark_music_completed: the album restarts at its first track next time
mark_music_completed(doc, music_id) ==
    [doc EXCEPT !.music[music_id].completed = TRUE,
                !.music[music_id].current_track = 0,
                !.music[music_id].position = 0]

\* reset_music
reset_music(doc, music_id) ==
    [doc EXCEPT !.music[music_id].completed = FALSE,
                !.music[music_id].current_track = 0,
                !.music[music_id].position = 0]

\* the position stored under a target
StoredPosition(doc, target) ==
    IF target[1] = "podcast"
    THEN doc.podcasts[target[2]].episodes[target[3] + 1].position
    ELSE IF target[1] = "music" THEN doc.music[target[2]].position
    ELSE NoValue

\* PodcastPlayer.__init__
PlayerInit ==
    [current_podcast_id |-> NoValue, current_episode_index |-> NoValue,
     current_music_id |-> NoValue, current_music_tracks |-> <<>>,
     current_music_track_index |-> NoValue,
     current_mode |-> PAUSED, current_podcast_index |-> NoValue,
     last_state |-> None, last_podcast |-> NoValue,
     led |-> PAUSED]

\* AudioPlayer.__init__; _ended is the pending end-of-media notification
AudioInit ==
    [current_file |-> NoTarget, _is_paused |-> TRUE, _is_idle |-> TRUE,
     _ended |-> FALSE]

\* mpv --idle: no file loaded
EngineInit == [file |-> NoTarget, pos |-> 0, pause |-> FALSE]

\* _track_position sleeping; position and the target it was sampled for
SamplerInit == [pc |-> "sleep", position |-> 0, target |-> NoTarget]

\* the position the supervisor last learned from the engine or asked it to
\* seek to, and the outcome of the last get_position()
NoQuery == [made |-> FALSE, ok |-> TRUE, ret |-> 0, known |-> 0]
\* the last play() of a handler: the file and the start position it was given
NoPlay == [made |-> FALSE, file |-> NoTarget, start |-> 0]
\* lost: a command of the last handler got no response
\* guid: the guid of the episode whose file the last play() was given
GhostInit == [known |-> 0, query |-> NoQuery, play |-> NoPlay, lost |-> FALSE,
              guid |-> NoValue]
\* what is remembered of the last handler is forgotten when the next step starts
NewStep(g) == [g EXCEPT !.query = NoQuery, !.play = NoPlay, !.lost = FALSE]

(* The sequential code of a handler is a chain of functions of the world   *)
(* w: the objects' fields, the commands sent so far in this handler (q,    *)
(* events) and the window of commands fail_from..fail_to that get no       *)
(* response from the engine.                                               *)
World(from, to) ==
    [player |-> player, audio |-> audio, engine |-> engine, state |-> state,
     ghost |-> NewStep(ghost),
     events |-> <<>>, q |-> 0, fail_from |-> from, fail_to |-> to]

\* _send_command: the next command gets a response or None
Ok(w) == ~(w.fail_from <= w.q + 1 /\ w.q + 1 <= w.fail_to)
Send(w, command) ==
    [w EXCEPT !.q = @ + 1, !.events = Append(@, command),
              !.ghost.lost = @ \/ ~Ok(w)]

Max(a, b) == IF a >= b THEN a ELSE b
Min(a, b) == IF a <= b THEN a ELSE b

is_music_mode(w) == w.player.current_mode = MUSIC_MODE

\* AudioPlayer.is_playing
is_playing(w) == ~w.audio._is_paused /\ ~w.audio._is_idle

\* AudioPlayer.is_active: a file is loaded, playing or paused
is_active(w) == ~w.audio._is_idle

\* a get_position that answers a query without a response with -1
get_position_ret_Sentinel(w) ==
    IF w.audio._is_idle THEN 0
    ELSE IF Ok(w) /\ w.engine.file # NoTarget THEN w.engine.pos ELSE -1

\* AudioPlayer.get_position: the value returned
get_position_ret(w) ==
    IF w.audio._is_idle THEN 0
    ELSE IF Ok(w) /\ w.engine.file # NoTarget THEN w.engine.pos ELSE 0

\* AudioPlayer.get_position: the world after the call
get_position(w) ==
    IF w.audio._is_idle THEN w
    ELSE LET answered == Ok(w) /\ w.engine.file # NoTarget
             w1 == Send(w, "get_property")
         IN  [w1 EXCEPT !.ghost.query = [made |-> TRUE, ok |-> Ok(w),
                                         ret |-> get_position_ret(w),
                                         known |-> w.ghost.known],
                        !.ghost.known = IF answered THEN w.engine.pos ELSE @]

\* _save_podcast_position
save_podcast_position(w, position) ==
    IF w.player.current_podcast_id # NoValue /\ w.player.current_episode_index # NoValue
    THEN [w EXCEPT !.state = update_position(@, w.player.current_podcast_id,
                                             w.player.current_episode_index, position)]
    ELSE w

\* _save_music_position
save_music_position(w, position) ==
    IF w.player.current_music_id # NoValue /\ w.player.current_music_track_index # NoValue
    THEN [w EXCEPT !.state = update_music_position(@, w.player.current_music_id,
                                  w.player.current_music_track_index, position)]
    ELSE w

\* _save_position, the position callback of the AudioPlayer
save_position(w, position) ==
    IF is_music_mode(w) THEN save_music_position(w, position)
    ELSE save_podcast_position(w, position)

\* where _save_position stores a position now
RouteTarget(p) ==
    IF p.current_mode = MUSIC_MODE
    THEN IF p.current_music_id # NoValue /\ p.current_music_track_index # NoValue
         THEN MusicTarget(p.current_music_id, p.current_music_track_index)
         ELSE NoTarget
    ELSE IF p.current_podcast_id # NoValue /\ p.current_episode_index # NoValue
         THEN PodcastTarget(p.current_podcast_id, p.current_episode_index)
         ELSE NoTarget

\* _save_current_position
save_current_position(w) ==
    IF is_active(w)
    THEN LET pos == get_position_ret(w)
             w1 == get_position(w)
         IN  IF is_music_mode(w1) THEN save_music_position(w1, pos)
             ELSE IF w1.player.current_podcast_id # NoValue
                  THEN save_podcast_position(w1, pos)
                  ELSE w1
    ELSE w

\* pause() and stop(): "Save position before pausing / stopping"
flush_position(w) ==
    IF w.audio.current_file # NoTarget
    THEN LET position == get_position_ret(w)
             w1 == get_position(w)
         IN  IF position > 0
             THEN save_position([w1 EXCEPT !.events = Append(@, "callback")], position)
             ELSE w1
    ELSE w

\* AudioPlayer.pause
audio_pause(w) ==
    IF ~w.audio._is_paused /\ ~w.audio._is_idle
    THEN LET w1 == flush_position(w)
             w2 == Send(w1, "set_property")
         IN  IF Ok(w1)
             THEN [w2 EXCEPT !.audio._is_paused = TRUE, !.engine.pause = TRUE]
             ELSE w2
    ELSE w

\* AudioPlayer.stop
audio_stop(w) ==
    IF ~w.audio._is_idle
    THEN LET w1 == flush_position(w)
             w2 == Send(w1, "stop")
             w3 == IF Ok(w1) THEN [w2 EXCEPT !.engine = EngineInit] ELSE w2
         IN  [w3 EXCEPT !.audio.current_file = NoTarget, !.ghost.guid = NoValue,
                        !.audio._is_paused = TRUE,
                        !.audio._is_idle = TRUE,
                        !.ghost.known = 0]
    ELSE w

\* play(): "Verify file loaded by checking if we can get duration", at most
\* 5 times
RECURSIVE verify_loaded(_, _)
verify_loaded(w, n) ==
    IF n = 0 THEN w
    ELSE IF Ok(w) THEN Send(w, "get_property")
         ELSE verify_loaded(Send(w, "get_property"), n - 1)

\* the guid of the episode a podcast target is the file of
GuidOf(doc, target) ==
    IF target[1] = "podcast" /\ target[3] < Len(doc.podcasts[target[2]].episodes)
    THEN doc.podcasts[target[2]].episodes[target[3] + 1].guid
    ELSE NoValue

\* AudioPlayer.play
audio_play(w, file_path, exists, start_position) ==
    IF ~exists THEN [w EXCEPT !.events = Append(@, "not_found")]
    ELSE LET w1 == [w EXCEPT !.audio.current_file = file_path,
                             !.audio._is_paused = FALSE,
                             !.audio._is_idle = FALSE,
                             !.ghost.play = [made |-> TRUE, file |-> file_path,
                                             start |-> start_position],
                             !.ghost.guid = GuidOf(w.state, file_path)]
             w2 == Send(w1, "loadfile")
         IN  IF ~Ok(w1) THEN [w2 EXCEPT !.audio._is_idle = TRUE]
             ELSE LET w3 == [w2 EXCEPT !.engine = [file |-> file_path, pos |-> 0,
                                                   pause |-> FALSE],
                                       !.ghost.known = 0]
                  IN  IF start_position > 0
                      THEN LET w4 == verify_loaded(w3, 5)
                               w5 == Send(w4, "seek")
                           IN  IF Ok(w4)
                               THEN [w5 EXCEPT !.engine.pos = start_position,
                                               !.ghost.known = start_position]
                               ELSE w5
                      ELSE w3

\* AudioPlayer.has_ended: consume-once
has_ended(w) == w.audio._ended
consume_ended(w) == [w EXCEPT !.audio._ended = FALSE]

set_led(w, led_state) == [w EXCEPT !.player.led = led_state]

\* nested _play_music_track / _advance_music_track calls before RecursionError
RecursionLimit == 3

\* a load_episode that starts at the stored position
load_episode_NoRewind(w, podcast_index, ep_idx) ==
    LET ep == w.state.podcasts[podcast_index].episodes[ep_idx + 1]
        w1 == [w EXCEPT !.player.current_podcast_id = podcast_index,
                        !.player.current_podcast_index = podcast_index,
                        !.player.current_episode_index = ep_idx,
                        !.player.current_music_id = NoValue,
                        !.player.current_music_tracks = <<>>,
                        !.player.current_music_track_index = NoValue]
    IN  set_led(audio_play(w1, PodcastTarget(podcast_index, ep_idx), TRUE, ep.position),
                PLAYING)

\* a load_episode that leaves the music session fields as they are
load_episode_KeepsMusic(w, podcast_index, ep_idx) ==
    LET ep == w.state.podcasts[podcast_index].episodes[ep_idx + 1]
        w1 == [w EXCEPT !.player.current_podcast_id = podcast_index,
                        !.player.current_podcast_index = podcast_index,
                        !.player.current_episode_index = ep_idx]
        pos == Max(0, ep.position - REWIND_BUFFER)
    IN  set_led(audio_play(w1, PodcastTarget(podcast_index, ep_idx), TRUE, pos), PLAYING)

\* switch_to_podcast: the tail once the episode is chosen
load_episode(w, podcast_index, ep_idx) ==
    LET ep == w.state.podcasts[podcast_index].episodes[ep_idx + 1]
        w1 == [w EXCEPT !.player.current_podcast_id = podcast_index,
                        !.player.current_podcast_index = podcast_index,
                        !.player.current_episode_index = ep_idx,
                        !.player.current_music_id = NoValue,
                        !.player.current_music_tracks = <<>>,
                        !.player.current_music_track_index = NoValue]
        pos == Max(0, ep.position - REWIND_BUFFER)
    IN  set_led(audio_play(w1, PodcastTarget(podcast_index, ep_idx), TRUE, pos), PLAYING)

\* switch_to_podcast
switch_to_podcast(w, podcast_index) ==
    IF podcast_index < 1 \/ podcast_index > NumPodcasts THEN w
    ELSE LET w1 == audio_stop(w)
             ps == w1.state.podcasts[podcast_index]
             ep_idx == Min(ps.current_index, Len(ps.episodes) - 1)
         IN  IF ps.episodes = <<>> THEN set_led(w1, PAUSED)
             ELSE IF ~EpisodeExists(podcast_index, ep_idx) THEN set_led(w1, PAUSED)
             ELSE load_episode(w1, podcast_index, ep_idx)

RECURSIVE play_music_track(_, _, _, _)
RECURSIVE advance_music_track(_, _)

\* a _play_music_track that starts at the position it is given
play_music_track_NoRewind(w, track_idx, position, depth) ==
    LET tracks == w.player.current_music_tracks
    IN  IF tracks = <<>> \/ track_idx >= Len(tracks) THEN w
        ELSE IF ~TrackExists(w.player.current_music_id, tracks[track_idx + 1])
        THEN IF depth = 0 THEN [w EXCEPT !.events = Append(@, "RecursionError")]
             ELSE advance_music_track(w, depth - 1)
        ELSE LET w1 == [w EXCEPT !.player.current_music_track_index = track_idx]
             IN  set_led(audio_play(w1, MusicTarget(w.player.current_music_id, track_idx),
                                    TRUE, position), PLAYING)

\* _play_music_track
play_music_track(w, track_idx, position, depth) ==
    LET tracks == w.player.current_music_tracks
    IN  IF tracks = <<>> \/ track_idx >= Len(tracks) THEN w
        ELSE IF ~TrackExists(w.player.current_music_id, tracks[track_idx + 1])
        THEN IF depth = 0 THEN [w EXCEPT !.events = Append(@, "RecursionError")]
             ELSE advance_music_track(w, depth - 1)
        ELSE LET w1 == [w EXCEPT !.player.current_music_track_index = track_idx]
                 pos == IF position > 0 THEN Max(0, position - REWIND_BUFFER) ELSE 0
             IN  set_led(audio_play(w1, MusicTarget(w.player.current_music_id, track_idx),
                                    TRUE, pos), PLAYING)

\* an _advance_music_track that plays the next track without storing it
advance_music_track_NoPersist(w, depth) ==
    LET tracks == w.player.current_music_tracks
        music_id == w.player.current_music_id
        next_idx == w.player.current_music_track_index + 1
    IN  IF tracks = <<>> \/ w.player.current_music_track_index = NoValue THEN w
        ELSE IF next_idx >= Len(tracks)
        THEN set_led(audio_stop([w EXCEPT !.state = mark_music_completed(@, music_id)]),
                     PAUSED)
        ELSE play_music_track(w, next_idx, 0, depth)

\* _advance_music_track
advance_music_track(w, depth) ==
    LET tracks == w.player.current_music_tracks
        music_id == w.player.current_music_id
        next_idx == w.player.current_music_track_index + 1
    IN  IF tracks = <<>> \/ w.player.current_music_track_index = NoValue THEN w
        ELSE IF next_idx >= Len(tracks)
        THEN set_led(audio_stop([w EXCEPT !.state = mark_music_completed(@, music_id)]),
                     PAUSED)
        ELSE play_music_track(
                 [w EXCEPT !.state = save_music(@, music_id, @.music[music_id].folder,
                                                tracks, next_idx, 0, FALSE)],
                 next_idx, 0, depth)

\* _on_track_ended
on_track_ended(w) ==
    advance_music_track([w EXCEPT !.events = Append(@, "advance")], RecursionLimit)

\* a load_album that resumes a completed album where it was stored
load_album_ResumesCompleted(w, knob_position) ==
    LET music_id == knob_position
        saved == w.state.music[music_id]
        folder_changed == saved.folder # AlbumFolder(knob_position)
        resume == ~folder_changed
        w1 == IF ~resume /\ saved.completed
              THEN [w EXCEPT !.state = reset_music(@, music_id)] ELSE w
        rescan == ~resume \/ saved.tracks = <<>>
        tracks == IF rescan THEN scan_tracks(knob_position) ELSE saved.tracks
        clamp == rescan \/ saved.current_track >= Len(tracks)
        track_idx == IF clamp THEN 0 ELSE saved.current_track
        position == IF clamp THEN 0 ELSE saved.position
        w2 == [w1 EXCEPT !.player.current_music_id = music_id,
                         !.player.current_music_tracks = tracks,
                         !.player.current_music_track_index = track_idx,
                         !.player.current_podcast_id = NoValue,
                         !.player.current_episode_index = NoValue,
                         !.state = save_music(@, music_id, AlbumFolder(knob_position),
                                              tracks, track_idx, position, FALSE)]
    IN  IF tracks = <<>> THEN set_led(w1, PAUSED)
        ELSE play_music_track([w2 EXCEPT !.events = Append(@, IF resume THEN "resume"
                                                                ELSE "fresh")],
                              track_idx, position, RecursionLimit)

\* switch_to_album: the tail once the album is found
load_album(w, knob_position) ==
    LET music_id == knob_position
        saved == w.state.music[music_id]
        folder_changed == saved.folder # AlbumFolder(knob_position)
        resume == ~saved.completed /\ ~folder_changed
        w1 == IF ~resume /\ saved.completed
              THEN [w EXCEPT !.state = reset_music(@, music_id)] ELSE w
        rescan == ~resume \/ saved.tracks = <<>>
        tracks == IF rescan THEN scan_tracks(knob_position) ELSE saved.tracks
        clamp == rescan \/ saved.current_track >= Len(tracks)
        track_idx == IF clamp THEN 0 ELSE saved.current_track
        position == IF clamp THEN 0 ELSE saved.position
        w2 == [w1 EXCEPT !.player.current_music_id = music_id,
                         !.player.current_music_tracks = tracks,
                         !.player.current_music_track_index = track_idx,
                         !.player.current_podcast_id = NoValue,
                         !.player.current_episode_index = NoValue,
                         !.state = save_music(@, music_id, AlbumFolder(knob_position),
                                              tracks, track_idx, position, FALSE)]
    IN  IF tracks = <<>> THEN set_led(w1, PAUSED)
        ELSE play_music_track([w2 EXCEPT !.events = Append(@, IF resume THEN "resume"
                                                                ELSE "fresh")],
                              track_idx, position, RecursionLimit)

\* switch_to_album
switch_to_album(w, knob_position) ==
    IF ~HasAlbum(knob_position) THEN set_led(audio_stop(w), PAUSED)
    ELSE load_album(audio_stop(save_current_position(w)), knob_position)

\* PodcastPlayer.pause
pause(w) ==
    set_led(IF is_playing(w) THEN audio_pause(save_current_position(w)) ELSE w, PAUSED)

\* a handle_switch_change that loads the remembered selection on a mode change
handle_switch_change_Remembered(w, st, podcast_index) ==
    LET mode_changed == st # w.player.current_mode
        knob_changed == podcast_index # w.player.current_podcast_index
        remembered == w.player.current_podcast_index
    IN  IF mode_changed
        THEN LET w1 == save_current_position(w)
                 w2 == [w1 EXCEPT !.player.current_mode = st]
             IN  IF st = PAUSED THEN pause(w2)
                 ELSE IF st = PLAYING
                 THEN IF remembered # NoValue
                      THEN switch_to_podcast(audio_stop(w2), remembered)
                      ELSE audio_stop(w2)
                 ELSE IF remembered # NoValue
                      THEN switch_to_album(audio_stop(w2), remembered)
                      ELSE audio_stop(w2)
        ELSE IF knob_changed /\ podcast_index # NoValue
        THEN LET w1 == [w EXCEPT !.player.current_podcast_index = podcast_index]
             IN  IF st = PLAYING THEN switch_to_podcast(w1, podcast_index)
                 ELSE IF st = MUSIC_MODE THEN switch_to_album(w1, podcast_index)
                 ELSE w1
        ELSE w

\* a handle_switch_change that loads the podcast of a selection made while paused
handle_switch_change_PausedLoads(w, st, podcast_index) ==
    LET mode_changed == st # w.player.current_mode
        knob_changed == podcast_index # w.player.current_podcast_index
    IN  IF mode_changed
        THEN LET w1 == save_current_position(w)
                 w2 == [w1 EXCEPT !.player.current_mode = st]
             IN  IF st = PAUSED THEN pause(w2)
                 ELSE IF st = PLAYING
                 THEN IF podcast_index # NoValue
                      THEN switch_to_podcast(audio_stop(w2), podcast_index)
                      ELSE audio_stop(w2)
                 ELSE IF podcast_index # NoValue
                      THEN switch_to_album(audio_stop(w2), podcast_index)
                      ELSE audio_stop(w2)
        ELSE IF knob_changed /\ podcast_index # NoValue
        THEN LET w1 == [w EXCEPT !.player.current_podcast_index = podcast_index]
             IN  IF st = MUSIC_MODE THEN switch_to_album(w1, podcast_index)
                 ELSE switch_to_podcast(w1, podcast_index)
        ELSE w

\* handle_switch_change
handle_switch_change(w, st, podcast_index) ==
    LET mode_changed == st # w.player.current_mode
        knob_changed == podcast_index # w.player.current_podcast_index
    IN  IF mode_changed
        THEN LET w1 == save_current_position(w)
                 w2 == [w1 EXCEPT !.player.current_mode = st]
             IN  IF st = PAUSED THEN pause(w2)
                 ELSE IF st = PLAYING
                 THEN IF podcast_index # NoValue
                      THEN switch_to_podcast(audio_stop(w2), podcast_index)
                      ELSE audio_stop(w2)
                 ELSE IF podcast_index # NoValue
                      THEN switch_to_album(audio_stop(w2), podcast_index)
                      ELSE audio_stop(w2)
        ELSE IF knob_changed /\ podcast_index # NoValue
        THEN LET w1 == [w EXCEPT !.player.current_podcast_index = podcast_index]
             IN  IF st = PLAYING THEN switch_to_podcast(w1, podcast_index)
                 ELSE IF st = MUSIC_MODE THEN switch_to_album(w1, podcast_index)
                 ELSE w1
        ELSE w

\* an end-of-track check that does not ask has_ended()
end_of_track_check_Unguarded(w) ==
    IF is_music_mode(w) THEN on_track_ended(consume_ended(w)) ELSE w

\* run(): "Check for end-of-track in music mode"
end_of_track_check(w) ==
    IF is_music_mode(w) /\ has_ended(w) THEN on_track_ended(consume_ended(w)) ELSE w

\* run(): read_state() and the comparison with the last reading
poll_switch(w, rd) ==
    IF rd[1] # w.player.last_state \/ rd[2] # w.player.last_podcast
    THEN [handle_switch_change(w, rd[1], rd[2]) EXCEPT !.player.last_state = rd[1],
                                                       !.player.last_podcast = rd[2]]
    ELSE w

\* the fields of the world become the next state
Commit(w) ==
    /\ player' = w.player
    /\ audio' = w.audio
    /\ engine' = w.engine
    /\ state' = w.state
    /\ ghost' = w.ghost
    /\ events' = w.events

\* outages of the control channel within one handler: none, one command
\* without a response, or no response to any command
NoOutage == <<1, 0>>
Outages ==
    {NoOutage} \cup {<<k, k>> : k \in 1..MaxOutage} \cup {<<1, MaxOutage + 5>>}

\* run(): one iteration of the main loop, then time.sleep(0.1)
MainLoop ==
    \E rd \in Readings, o \in Outages :
        /\ Commit(poll_switch(end_of_track_check(World(o[1], o[2])), rd))
        /\ UNCHANGED sampler

\* _track_position after time.sleep(5): get_position() while playing
SamplerSample ==
    \E o \in {NoOutage, <<1, 1>>} :
        /\ sampler.pc = "sleep"
        /\ audio.current_file # NoTarget /\ ~audio._is_idle /\ ~audio._is_paused
        /\ LET w == World(o[1], o[2])
               position == get_position_ret(w)
           IN  /\ sampler' = IF position > 0
                             THEN [pc |-> "deliver", position |-> position,
                                   target |-> audio.current_file]
                             ELSE sampler
               /\ Commit(get_position(w))

\* _track_position: self.position_callback(position)
SamplerDeliver ==
    /\ sampler.pc = "deliver"
    /\ sampler' = SamplerInit
    /\ LET w == World(NoOutage[1], NoOutage[2])
       IN  Commit(save_position([w EXCEPT !.events = <<"callback">>], sampler.position))

\* the engine plays: time-pos grows
EnginePlays ==
    /\ engine.file # NoTarget /\ ~engine.pause
    /\ engine.pos < MaxPos
    /\ engine' = [engine EXCEPT !.pos = @ + 1]
    /\ events' = <<>>
    /\ ghost' = NewStep(ghost)
    /\ UNCHANGED <<player, audio, state, sampler>>

\* the engine reaches the end of the file: the end-of-media notification;
\* with --loop the file starts again
EngineEnds ==
    /\ engine.file # NoTarget /\ ~engine.pause
    /\ engine.pos > 0
    /\ engine' = [engine EXCEPT !.pos = 0]
    /\ audio' = [audio EXCEPT !._ended = TRUE]
    /\ events' = <<>>
    /\ ghost' = NewStep(ghost)
    /\ UNCHANGED <<player, state, sampler>>

Next ==
    \/ MainLoop /\ UNCHANGED notCtl
    \/ SamplerSample /\ UNCHANGED notCtl
    \/ SamplerDeliver /\ UNCHANGED notCtl
    \/ EnginePlays /\ UNCHANGED notCtl
    \/ EngineEnds /\ UNCHANGED notCtl

(***************************************************************************)
(* The objects after construction                                          *)
(***************************************************************************)
Init ==
    /\ hardware = HardwareInit
    /\ hw_now = HwStart
    /\ pins = PinsInit
    /\ samples = <<>>
    /\ reading = <<None, NoValue>>
    /\ chan = ChanInit
    /\ thr = [t \in Threads |-> ThreadInit(t)]
    /\ \E p \in Positions :
        /\ state = Document(p)
        /\ fs = FsInit(p)
    /\ sm = [_last_save_time |-> 0]
    /\ wr = [t \in Writers |-> WriterInit]
    /\ st_now = 0
    /\ player = PlayerInit
    /\ audio = AudioInit
    /\ engine = EngineInit
    /\ sampler = SamplerInit
    /\ events = <<>>
    /\ ghost = GhostInit

Spec == Init /\ [][Next]_vars

(***************************************************************************)
(* The controller started on a state.json left by earlier runs: positions  *)
(* beyond the rewind buffer, albums half played, completed, or stored for  *)
(* a folder the knob position is no longer mapped to                       *)
(***************************************************************************)
\* the largest position found in the state file
MaxStored == 3
StoredPositions == 0..MaxStored
\* the folder a knob position was mapped to before the albums were renamed
OldFolder == 0

\* the album entries state.json can hold: none yet, or one written by save_music
StoredAlbums(m) ==
    {DefaultMusic} \cup
    {[folder |-> f, tracks |-> scan_tracks(m), current_track |-> t,
      position |-> p, completed |-> c] :
        f \in {AlbumFolder(m), OldFolder}, t \in 0..(NumTracks - 1),
        p \in StoredPositions, c \in BOOLEAN}

\* _load_state: the document of such a file
StoredDocument(p, albums) == [Document(p) EXCEPT !.music = albums]

InitResume ==
    /\ hardware = HardwareInit
    /\ hw_now = HwStart
    /\ pins = PinsInit
    /\ samples = <<>>
    /\ reading = <<None, NoValue>>
    /\ chan = ChanInit
    /\ thr = [t \in Threads |-> ThreadInit(t)]
    /\ \E p \in StoredPositions :
       \E albums \in [AlbumIds -> UNION {StoredAlbums(m) : m \in AlbumIds}] :
        /\ \A m \in AlbumIds : albums[m] \in StoredAlbums(m)
        /\ state = StoredDocument(p, albums)
        /\ fs = [FsInit(p) EXCEPT !.data[1] = FileOf(StoredDocument(p, albums))]
    /\ sm = [_last_save_time |-> 0]
    /\ wr = [t \in Writers |-> WriterInit]
    /\ st_now = 0
    /\ player = PlayerInit
    /\ audio = AudioInit
    /\ engine = EngineInit
    /\ sampler = SamplerInit
    /\ events = <<>>
    /\ ghost = GhostInit

\* the main loop alone: the engine stays where play() and seek put it
NextResume ==
    \/ MainLoop /\ UNCHANGED notCtl

SpecResume == InitResume /\ [][NextResume]_vars

(***************************************************************************)
(* The scheduled refresh and the episode lists: check_for_new_episodes run *)
(* by schedule.run_pending() at the top of the main loop, and the state    *)
(* manager's mark_episode_completed                                        *)
(***************************************************************************)
\* guids the feeds announce over time
NumGuids == 3
Guids == 1..NumGuids
\* config.max_episodes (max_episodes_per_podcast defaults to 2)
max_episodes == 2

NewEpisode(guid) == [guid |-> guid, position |-> 0]

\* fetch_episodes(rss_url, count=1): no episode (empty feed, timeout, parse
\* error) or the newest item of the feed
Fetched == {<<>>} \cup {<<g>> : g \in Guids}

existing_guids(ps) == {ps.episodes[k].guid : k \in 1..Len(ps.episodes)}

\* _update_episodes: the first episode of ps with this guid
Existing(ps, guid) ==
    ps.episodes[CHOOSE k \in 1..Len(ps.episodes) :
                    /\ ps.episodes[k].guid = guid
                    /\ \A j \in 1..(k - 1) : ps.episodes[j].guid # guid]

\* _update_episodes: the loop that builds new_eps; downloaded says whether
\* download_episode returned a filename
RECURSIVE new_eps(_, _, _)
new_eps(ps, episodes, downloaded) ==
    IF episodes = <<>> THEN <<>>
    ELSE LET guid == Head(episodes)
             rest == new_eps(ps, Tail(episodes), downloaded)
         IN  IF guid \notin existing_guids(ps)
             THEN IF downloaded THEN <<NewEpisode(guid)>> \o rest ELSE rest
             ELSE <<Existing(ps, guid)>> \o rest

\* _update_episodes: "updated"
updated(ps, episodes, downloaded) ==
    downloaded /\ \E k \in 1..Len(episodes) : episodes[k] \notin existing_guids(ps)

\* _update_episodes: the document after the call
update_episodes(doc, podcast_id, episodes, downloaded) ==
    LET ps == doc.podcasts[podcast_id]
        new == new_eps(ps, episodes, downloaded)
    IN  IF updated(ps, episodes, downloaded)
        THEN [doc EXCEPT !.podcasts[podcast_id].episodes =
                             SubSeq(new, 1, Min(Len(new), max_episodes))]
        ELSE doc

\* check_for_new_episodes: the loop over config.podcasts, from podcast idx on
RECURSIVE check_podcasts(_, _, _, _)
check_podcasts(doc, idx, feed, downloads) ==
    IF idx > NumPodcasts THEN doc
    ELSE check_podcasts(
             IF feed[idx] = <<>> THEN doc
             ELSE update_episodes(doc, idx, feed[idx], downloads[idx]),
             idx + 1, feed, downloads)

\* a check_for_new_episodes that stops the playback before it replaces lists
check_for_new_episodes_StopsPlayback(w, feed, downloads) ==
    LET w1 == audio_stop([w EXCEPT !.events = Append(@, "refresh")])
        w2 == [w1 EXCEPT !.state = check_podcasts(@, 1, feed, downloads)]
    IN  set_led(w2, IF is_playing(w2) THEN PLAYING ELSE PAUSED)

\* check_for_new_episodes: the indicator shows Refreshing and Downloading
\* meanwhile and is restored at the end
check_for_new_episodes(w, feed, downloads) ==
    LET w1 == [w EXCEPT !.events = Append(@, "refresh"),
                        !.state = check_podcasts(@, 1, feed, downloads)]
    IN  set_led(w1, IF is_playing(w1) THEN PLAYING ELSE PAUSED)

\* mark_episode_completed: the mutation of the document
mark_episode_completed(doc, podcast_id, episode_index) ==
    LET podcast == doc.podcasts[podcast_id]
    IN  IF 0 <= episode_index /\ episode_index < Len(podcast.episodes)
        THEN IF episode_index + 1 < Len(podcast.episodes)
             THEN [doc EXCEPT !.podcasts[podcast_id].current_index = episode_index + 1]
             ELSE doc
        ELSE doc

\* schedule.run_pending() finds the refresh due
CheckForNewEpisodes ==
    \E feed \in [PodcastIds -> Fetched], downloads \in [PodcastIds -> BOOLEAN] :
        /\ Commit(check_for_new_episodes(World(NoOutage[1], NoOutage[2]), feed, downloads))
        /\ UNCHANGED sampler

\* a call of StateManager.mark_episode_completed
MarkEpisodeCompleted ==
    \E podcast_id \in PodcastIds, episode_index \in 0..(max_episodes - 1) :
        /\ state' = mark_episode_completed(state, podcast_id, episode_index)
        /\ events' = <<>>
        /\ ghost' = NewStep(ghost)
        /\ UNCHANGED <<player, audio, engine, sampler>>

\* the document of a state.json whose first podcast holds max_episodes
\* episodes not heard yet
FeedDocument ==
    [Document(0) EXCEPT !.podcasts[1].episodes =
                            [k \in 1..max_episodes |-> NewEpisode(k)]]

InitFeed ==
    /\ hardware = HardwareInit
    /\ hw_now = HwStart
    /\ pins = PinsInit
    /\ samples = <<>>
    /\ reading = <<None, NoValue>>
    /\ chan = ChanInit
    /\ thr = [t \in Threads |-> ThreadInit(t)]
    /\ state = FeedDocument
    /\ fs = [FsInit(0) EXCEPT !.data[1] = FileOf(FeedDocument)]
    /\ sm = [_last_save_time |-> 0]
    /\ wr = [t \in Writers |-> WriterInit]
    /\ st_now = 0
    /\ player = PlayerInit
    /\ audio = AudioInit
    /\ engine = EngineInit
    /\ sampler = SamplerInit
    /\ events = <<>>
    /\ ghost = GhostInit

NextFeed ==
    \/ MainLoop /\ UNCHANGED notCtl
    \/ CheckForNewEpisodes /\ UNCHANGED notCtl
    \/ MarkEpisodeCompleted /\ UNCHANGED notCtl

SpecFeed == InitFeed /\ [][NextFeed]_vars

(***************************************************************************)
(* The AudioPlayer driven call by call: play, pause, stop and get_position *)
(* in any order, with files that exist or not and with outages of the      *)
(* control channel                                                         *)
(***************************************************************************)
\* the files play() is called with
AudioFiles == {PodcastTarget(1, 0), MusicTarget(1, 0)}

\* a call of play(file_path, start_position); os.path.exists(file_path) is
\* true or false
Play ==
    \E file_path \in AudioFiles, exists \in BOOLEAN, start_position \in Positions,
       o \in Outages :
        /\ Commit(audio_play(World(o[1], o[2]), file_path, exists, start_position))
        /\ UNCHANGED sampler

\* a call of pause()
Pause ==
    \E o \in Outages :
        /\ Commit(audio_pause(World(o[1], o[2])))
        /\ UNCHANGED sampler

\* a call of stop()
Stop ==
    \E o \in Outages :
        /\ Commit(audio_stop(World(o[1], o[2])))
        /\ UNCHANGED sampler

\* a call of get_position()
GetPosition ==
    \E o \in Outages :
        /\ Commit(get_position(World(o[1], o[2])))
        /\ UNCHANGED sampler

NextAudio ==
    \/ Play /\ UNCHANGED notCtl
    \/ Pause /\ UNCHANGED notCtl
    \/ Stop /\ UNCHANGED notCtl
    \/ GetPosition /\ UNCHANGED notCtl
    \/ EnginePlays /\ UNCHANGED notCtl

SpecAudio == Init /\ [][NextAudio]_vars

(***************************************************************************)
(* The state manager called from one thread: each call runs to its end,    *)
(* save() included, and the process may be started again on the file       *)
(***************************************************************************)
\* what the actions of the state manager called this way leave alone
notSaved == <<hwvars, chanvars, wr, player, audio, engine, sampler, ghost>>

\* save(force) with no other thread in save(): skipped by the throttle, or
\* the document is written to state.tmp, which replaces state.json
SaveWhole(force) ==
    IF Throttled(force)
    THEN /\ events' = <<"throttled">>
         /\ UNCHANGED <<fs, sm>>
    ELSE LET i == IF fs.tmp = NoInode THEN FreeInode ELSE fs.tmp
         IN  /\ fs' = Collect([fs EXCEPT !.file = i, !.tmp = NoInode,
                                         !.data[i] = FileOf(state')], wr)
             /\ sm' = [sm EXCEPT !._last_save_time = st_now]
             /\ events' = IF force THEN <<"saved", "force">> ELSE <<"saved">>

\* update_position(podcast_id, episode_index, position)
CallUpdatePosition ==
    \E podcast_id \in PodcastIds, episode_index \in 0..(max_episodes - 1),
       position \in Positions :
        /\ state' = update_position(state, podcast_id, episode_index, position)
        /\ IF episode_index < Len(state.podcasts[podcast_id].episodes)
           THEN SaveWhole(FALSE)
           ELSE events' = <<>> /\ UNCHANGED <<fs, sm>>
        /\ UNCHANGED st_now

\* mark_episode_completed(podcast_id, episode_index): save(force=True)
CallMarkEpisodeCompleted ==
    \E podcast_id \in PodcastIds, episode_index \in 0..(max_episodes - 1) :
        /\ state' = mark_episode_completed(state, podcast_id, episode_index)
        /\ IF episode_index < Len(state.podcasts[podcast_id].episodes)
           THEN SaveWhole(TRUE)
           ELSE events' = <<>> /\ UNCHANGED <<fs, sm>>
        /\ UNCHANGED st_now

\* set_last_check(timestamp): save(force=True)
CallSetLastCheck ==
    /\ state' = state
    /\ SaveWhole(TRUE)
    /\ UNCHANGED st_now

\* the process is started again: StateManager.__init__ loads the file
Reload ==
    /\ state' = load_state(StateFile)
    /\ sm' = [sm EXCEPT !._last_save_time = st_now]
    /\ events' = <<"reloaded">>
    /\ UNCHANGED <<fs, st_now>>

NextRoundTrip ==
    \/ StoreTick /\ UNCHANGED notStore
    \/ CallUpdatePosition /\ UNCHANGED notSaved
    \/ CallMarkEpisodeCompleted /\ UNCHANGED notSaved
    \/ CallSetLastCheck /\ UNCHANGED notSaved
    \/ Reload /\ UNCHANGED notSaved

SpecRoundTrip == InitFeed /\ [][NextRoundTrip]_vars

(* The supervisor and the life of the mpv process: SpecProcess. The         *)
(* supervisor's calls of SpecAudio are made while mpv runs; mpv may exit,   *)
(* and the next play() restarts it. The threads of the restart are those   *)
(* of SpecChan.                                                            *)

\* mpv exits on its own: its loaded file is gone with it. No code of the
\* supervisor runs, so current_file, _is_paused and _is_idle keep their values
ProcessDies ==
    /\ chan.process = "alive"
    /\ chan' = [chan EXCEPT !.process = "dead"]
    /\ engine' = EngineInit
    /\ UNCHANGED <<hwvars, thr, storevars, player, audio, sampler, events, ghost>>

\* play() after mpv died: _ensure_process_alive() restarts mpv before the
\* existence test and the loadfile command; when the socket does not come
\* up, cleanup() sends quit and sets process to None, and RuntimeError
\* leaves play()
PlayRelaunch ==
    \E started \in BOOLEAN :
        /\ chan.process = "dead"
        /\ IF started
           THEN /\ chan' = [chan EXCEPT !.process = "alive",
                                        !._stop_position_tracking = FALSE]
                /\ \E file_path \in AudioFiles, exists \in BOOLEAN,
                      start_position \in Positions, o \in Outages :
                       Commit(audio_play(World(o[1], o[2]), file_path, exists,
                                         start_position))
           ELSE /\ chan' = [chan EXCEPT !.process = "none",
                                        !._stop_position_tracking = TRUE]
                /\ events' = <<"quit">>
                /\ UNCHANGED <<state, player, audio, engine, ghost>>
        /\ UNCHANGED <<hwvars, thr, sm, fs, wr, st_now, sampler>>

NextProcess ==
    \/ chan.process = "alive" /\ NextAudio
    \/ ProcessDies
    \/ PlayRelaunch

SpecProcess == Init /\ [][NextProcess]_vars

(* Albums with missing track files: SpecMissing. The main loop and the      *)
(* engine of Spec, started with some of the scanned tracks of an album not  *)
(* on disk.                                                                *)
MissingSets == (SUBSET (AlbumIds \X (1..NumTracks))) \ {{}}

InitMissing ==
    /\ hardware = HardwareInit
    /\ hw_now = HwStart
    /\ pins = PinsInit
    /\ samples = <<>>
    /\ reading = <<None, NoValue>>
    /\ chan = ChanInit
    /\ thr = [t \in Threads |-> ThreadInit(t)]
    /\ state = Document(0)
    /\ \E missing \in MissingSets : fs = [FsInit(0) EXCEPT !.missing = missing]
    /\ sm = [_last_save_time |-> 0]
    /\ wr = [t \in Writers |-> WriterInit]
    /\ st_now = 0
    /\ player = PlayerInit
    /\ audio = AudioInit
    /\ engine = EngineInit
    /\ sampler = SamplerInit
    /\ events = <<>>
    /\ ghost = GhostInit

NextMissing ==
    \/ MainLoop /\ UNCHANGED notCtl
    \/ EnginePlays /\ UNCHANGED notCtl
    \/ EngineEnds /\ UNCHANGED notCtl

SpecMissing == InitMissing /\ [][NextMissing]_vars

(* Scheduled refreshes during playback: SpecRefresh. The main loop, the     *)
(* scheduled refresh and the engine's progress.                             *)
\* the mode switch is not put to music, and only the feed of the first
\* podcast has new episodes
NextRefresh ==
    \/ MainLoop /\ player'.current_mode # MUSIC_MODE /\ UNCHANGED notCtl
    \/ CheckForNewEpisodes /\ state'.podcasts[2] = state.podcasts[2]
           /\ UNCHANGED notCtl
    \/ EnginePlays /\ UNCHANGED notCtl

SpecRefresh == Init /\ [][NextRefresh]_vars

SpecHW == Init /\ [][NextHW]_vars

SpecPins == Init /\ [][NextPins]_vars

SpecChan == Init /\ [][NextChan]_vars

SpecStore == Init /\ [][NextStore]_vars

(***************************************************************************)
(* Properties of the debouncer (SpecHW)                                    *)
(***************************************************************************)
\* the raw value sampled by the poll that led to this state
LastRaw(h) == h[Len(h)]
AllEqual(h, v) == Len(h) = STABLE_READS /\ \A i \in 1..STABLE_READS : h[i] = v

\* C3: the confirmed selection changes to v only in a poll after which the
\* STABLE_READS most recent raw samples, the current one included, all equal v.
C3_ConfirmNeedsStableSamples ==
    [][hardware'.last_podcast_index # hardware.last_podcast_index
         => AllEqual(samples', hardware'.last_podcast_index)]_vars

\* the selection moved from the default 1 to 2 on five samples of 2
C3_Witness ==
    /\ hardware.last_podcast_index = 2
    /\ hardware._last_confirm = 2
    /\ AllEqual(samples, 2)

\* C4: a confirmation of a value other than the previously confirmed one
\* happens only TRANSITION_TIMEOUT_MS or more after the previous confirmation.
C4_ConfirmationsTimeoutApart ==
    [][(hardware._last_confirm # NoValue
        /\ hardware'._last_confirm # hardware._last_confirm)
         => hw_now' - hardware._last_confirm_time >= TRANSITION_TIMEOUT_MS]_vars

\* C5: the raw values 0 and -1 are never the confirmed selection, and a poll
\* that samples 0 or -1 leaves the confirmed selection as it was.
C5_InvalidSamplesNeverConfirmed ==
    [][/\ hardware'.last_podcast_index \in 1..NumPins
       /\ hardware'._last_confirm \in (1..NumPins) \cup {NoValue}
       /\ LastRaw(samples') \in {0, -1}
            => /\ hardware'.last_podcast_index = hardware.last_podcast_index
               /\ hardware'._last_confirm = hardware._last_confirm]_vars

\* five contention samples in a row after 2 was confirmed: 2 is still confirmed
C5_Witness ==
    /\ hardware.last_podcast_index = 2
    /\ hardware._last_confirm = 2
    /\ hardware._stable_count >= STABLE_READS
    /\ AllEqual(samples, -1)

(***************************************************************************)
(* Properties of the control channel (SpecChan)                            *)
(***************************************************************************)
\* a step of thread t inside _send_command
SendStep(t) == Acquire(t) \/ Io(t) \/ Except(t) \/ Restart(t)

\* C2: every call of _send_command returns: a thread inside _send_command can
\* always take its next step, or waits for the lock while another thread holds
\* it and can take its own next step (so the lock is released later).
C2_SendCommandReturns ==
    \A t \in Threads :
        InSend(t) =>
            \/ ENABLED SendStep(t)
            \/ /\ chan.lock \in Threads \ {t}
               /\ ENABLED SendStep(chan.lock)

(***************************************************************************)
(* Properties of the state store (SpecStore)                               *)
(***************************************************************************)
\* C7: when PodcastPlayer.cleanup has completed, the state file holds the
\* document with the position stored by its _save_current_position().
C7_ShutdownPersistsPosition ==
    wr["main"].pc = "done" => load_state(StateFile) = state

\* C8: whatever save() is doing, the state file holds a complete document.
C8_StateFileNeverPartial == IsComplete(StateFile)

(***************************************************************************)
(* Properties of the controller (Spec)                                     *)
(***************************************************************************)
\* the document after update_position / update_music_position for a target
StorePosition(doc, target, position) ==
    IF target[1] = "podcast" THEN update_position(doc, target[2], target[3], position)
    ELSE IF target[1] = "music"
    THEN update_music_position(doc, target[2], target[3], position)
    ELSE doc

\* the position thread hands the position it sampled to the callback
SamplerDelivers == sampler.pc = "deliver" /\ sampler'.pc = "sleep"

\* C1: a position delivered by the position thread is stored for the session
\* it was sampled in, or not at all; it never changes another session's entry.
C1_CallbackStaysInItsSession ==
    [][SamplerDelivers =>
        state' \in {state, StorePosition(state, sampler.target, sampler.position)}]_vars

Advanced(ev) == \E i \in DOMAIN ev : ev[i] = "advance"

\* the mode switch leaves Playing or MusicMode while a session is loaded
ModeChangesAway ==
    /\ player.current_mode \in {PLAYING, MUSIC_MODE}
    /\ player'.current_mode # player.current_mode
    /\ ~audio._is_idle
    /\ RouteTarget(player) # NoTarget
    /\ ~Advanced(events')

\* C6: when the mode changes away from Playing or MusicMode, the position
\* stored for the session that was active is its most recent known position:
\* the engine's position if the flush learned it, else the last one known.
C6_ModeChangeFlushesPosition ==
    [][ModeChangesAway =>
        StoredPosition(state', RouteTarget(player)) \in {engine.pos, ghost.known}]_vars

\* C9: a get_position() whose query got no response returns the position
\* last known to the supervisor.
C9_FailedQueryReturnsKnown ==
    (ghost.query.made /\ ~ghost.query.ok) => ghost.query.ret = ghost.query.known

\* C10: the main loop advances a track only on a pending end-of-media
\* notification, and the advance consumes it: one advance per notification.
C10_AdvanceConsumesNotification ==
    [][Advanced(events') => (audio._ended /\ ~audio'._ended)]_vars

\* C10: an iteration in music mode has advanced the album and the
\* notification is gone
C10_Witness ==
    /\ Advanced(events)
    /\ player.current_mode = MUSIC_MODE
    /\ ~audio._ended
    /\ player.current_music_track_index = 1

(***************************************************************************)
(* Properties of handle_switch_change (Spec)                               *)
(***************************************************************************)
\* the main loop handles a reading whose mode differs from the current mode
ModeChangesTo(mode) == player.current_mode # mode /\ player'.current_mode = mode

\* the first and the last place of a command among the commands of a step
FirstIndex(ev, command) ==
    CHOOSE i \in DOMAIN ev : ev[i] = command /\ \A j \in 1..(i - 1) : ev[j] # command
LastIndex(ev, command) ==
    CHOOSE i \in DOMAIN ev : ev[i] = command /\ \A j \in (i + 1)..Len(ev) : ev[j] # command
Sent(ev, command) == \E i \in DOMAIN ev : ev[i] = command

\* the session positions are stored for and the file the supervisor holds
SourceUnchanged ==
    /\ player'.current_podcast_id = player.current_podcast_id
    /\ player'.current_episode_index = player.current_episode_index
    /\ player'.current_music_id = player.current_music_id
    /\ player'.current_music_track_index = player.current_music_track_index
    /\ audio'.current_file = audio.current_file

\* C11: when the mode changes to Paused while a session plays, the position
\* stored for it is its current position (the engine's, or the last one known
\* when the query fails), the position is asked for before the pause command
\* is sent, afterwards the supervisor is not playing, and the session and the
\* loaded file are the ones from before.
C11_PauseSavesThenPauses ==
    [][(ModeChangesTo(PAUSED) /\ ~Advanced(events')) =>
        /\ (~audio._is_idle /\ RouteTarget(player) # NoTarget) =>
                StoredPosition(state', RouteTarget(player)) \in {engine.pos, ghost.known}
        /\ Sent(events', "set_property") =>
                /\ Sent(events', "get_property")
                /\ FirstIndex(events', "get_property") < FirstIndex(events', "set_property")
        /\ audio'._is_paused \/ audio'._is_idle
        /\ SourceUnchanged]_vars

\* the kind of session a mode plays
Kind(mode) == IF mode = PLAYING THEN "podcast" ELSE "music"

\* a selection has something to play in a mode: a podcast with an episode, a
\* knob position with an album
SessionAvailable(mode, selection) ==
    IF mode = PLAYING THEN state.podcasts[selection].episodes # <<>>
    ELSE HasAlbum(selection)

\* after the step the supervisor is idle, or the file it plays is of the
\* session of the reading's selection and the controller's session is that one
HoldsSelection(mode) ==
    \/ audio'._is_idle
    \/ /\ audio'.current_file[1] = Kind(mode)
       /\ audio'.current_file[2] = player'.last_podcast
       /\ RouteTarget(player') = audio'.current_file

\* the last play() of the step is given a file of the mode's kind
LoadsFor(mode) == ghost'.play.made /\ ghost'.play.file[1] = Kind(mode)

SameModeNewSelection(mode) ==
    /\ player.last_state = mode /\ player'.last_state = mode
    /\ player.last_podcast # player'.last_podcast

\* C13: a reading with the mode of the previous reading, Playing (MusicMode),
\* and another selection switches the session to the new selection: its file
\* is given to play(), or playback is stopped when it has nothing to play.
C13_SelectionChangeSwitches ==
    [][\A mode \in {PLAYING, MUSIC_MODE} :
        (SameModeNewSelection(mode) /\ ~Advanced(events')) =>
            IF SessionAvailable(mode, player'.last_podcast)
            THEN LoadsFor(mode) /\ ghost'.play.file[2] = player'.last_podcast
            ELSE audio'._is_idle]_vars

\* C14: a reading with mode Paused after a reading with mode Paused and
\* another selection sends no command, leaves the supervisor, the engine, the
\* session and every stored position as they are, and the remembered
\* selection is the reading's.
C14_PausedSelectionOnlyRemembered ==
    [][SameModeNewSelection(PAUSED) =>
        /\ events' = <<>>
        /\ audio' = audio /\ engine' = engine
        /\ state' = state
        /\ SourceUnchanged
        /\ player'.current_mode = PAUSED
        /\ player'.current_podcast_index = player'.last_podcast]_vars

\* C14: podcast 1 is loaded and paused, and selection 2 is remembered
C14_Witness ==
    /\ player.last_state = PAUSED /\ player.last_podcast = 2
    /\ player.current_podcast_index = 2
    /\ player.current_podcast_id = 1
    /\ ~audio._is_idle /\ audio._is_paused
    /\ audio.current_file = PodcastTarget(1, 0)
    /\ events = <<>>

(***************************************************************************)
(* Properties of the load policies (SpecResume)                            *)
(***************************************************************************)
\* the last handler gave an episode file to play()
PodcastLoaded == ghost.play.made /\ ghost.play.file[1] = "podcast"

\* C15: a podcast session is loaded with the start position max(0, stored
\* position - 2), and when every command of the handler was answered the
\* engine plays the episode from there: stored 3 starts at 1, stored 1 at 0.
C15_PodcastResumesRewound ==
    PodcastLoaded =>
        LET stored == StoredPosition(state, ghost.play.file)
            start == IF stored > REWIND_BUFFER THEN stored - REWIND_BUFFER ELSE 0
        IN  /\ ghost.play.start = start
            /\ ~ghost.lost => (engine.file = ghost.play.file /\ engine.pos = start)

\* C15: the episode stored at position 3 plays from position 1
C15_Witness ==
    /\ PodcastLoaded
    /\ StoredPosition(state, ghost.play.file) = 3
    /\ ghost.play.start = 1
    /\ engine.file = ghost.play.file /\ engine.pos = 1
    /\ ~audio._is_idle /\ ~audio._is_paused

\* the last handler reached the end of switch_to_album
AlbumLoaded(ev) == Sent(ev, "fresh") \/ Sent(ev, "resume")

\* the stored state of an album is absent, marked completed, or of another
\* folder than the knob position is mapped to now
StartsFresh(doc, m) ==
    \/ doc.music[m] = DefaultMusic
    \/ doc.music[m].completed
    \/ doc.music[m].folder # AlbumFolder(m)

\* the album entry of a session started from its first track
FreshAlbum(m) ==
    [folder |-> AlbumFolder(m), tracks |-> scan_tracks(m), current_track |-> 0,
     position |-> 0, completed |-> FALSE]

\* C16: an album loaded while its stored state is absent, completed or of
\* another folder starts at track 0, position 0 with the scanned track list:
\* the stored entry is the fresh one (not completed any more), play() gets
\* the first track and start position 0, and the engine plays it from 0 when
\* every command was answered.
C16_FreshAlbumStartsAtFirstTrack ==
    [][\A m \in AlbumIds :
        (/\ AlbumLoaded(events') /\ ~Advanced(events')
         /\ player'.last_podcast = m
         /\ StartsFresh(state, m)) =>
            /\ Sent(events', "fresh")
            /\ player'.current_music_id = m
            /\ player'.current_music_tracks = scan_tracks(m)
            /\ player'.current_music_track_index = 0
            /\ state'.music[m] = FreshAlbum(m)
            /\ ghost'.play = [made |-> TRUE, file |-> MusicTarget(m, 0), start |-> 0]
            /\ ~ghost'.lost => (engine'.file = MusicTarget(m, 0) /\ engine'.pos = 0)]_vars

\* C16: the state file has album 1 completed with track 1 at position 3
\* stored, and the album plays from track 0, position 0 with a fresh entry
C16_Witness ==
    /\ load_state(StateFile).music[1].completed
    /\ load_state(StateFile).music[1].current_track = 1
    /\ load_state(StateFile).music[1].position = 3
    /\ Sent(events, "fresh")
    /\ state.music[1] = FreshAlbum(1)
    /\ player.current_music_track_index = 0
    /\ engine.file = MusicTarget(1, 0) /\ engine.pos = 0

\* an album is loaded while its stored state is present, not completed and of
\* the folder the knob position is mapped to
AlbumResumes(m) ==
    /\ AlbumLoaded(events') /\ ~Advanced(events')
    /\ player'.last_podcast = m
    /\ ~StartsFresh(state, m)

\* C17 as amended: such an album resumes at the stored track, at the stored
\* position rewound by 2 s: play() gets the stored track and the start
\* position max(0, stored position - 2), and the engine plays it from there
\* when every command was answered.
C17_AlbumResumesRewound ==
    [][\A m \in AlbumIds :
        AlbumResumes(m) =>
            LET stored == state'.music[m].position
                start == IF stored > REWIND_BUFFER THEN stored - REWIND_BUFFER ELSE 0
            IN  /\ Sent(events', "resume")
                /\ ghost'.play.made
                /\ ghost'.play.file = MusicTarget(m, state'.music[m].current_track)
                /\ player'.current_music_track_index = state'.music[m].current_track
                /\ ghost'.play.start = start
                /\ ~ghost'.lost =>
                        (engine'.file = ghost'.play.file /\ engine'.pos = start)]_vars

\* C17: album 1, stored at track 1, position 3, plays track 1 from position 1
C17_Witness ==
    /\ Sent(events, "resume")
    /\ state.music[1].current_track = 1 /\ state.music[1].position = 3
    /\ ~state.music[1].completed
    /\ ghost.play = [made |-> TRUE, file |-> MusicTarget(1, 1), start |-> 1]
    /\ engine.file = MusicTarget(1, 1) /\ engine.pos = 1

\* C17: an album loaded while its stored state is present, not completed and
\* of the folder the knob position is mapped to resumes at the stored track
\* and position: play() gets the stored track and a start position equal to
\* the stored position.
C17_AlbumResumesAtStoredPosition ==
    [][\A m \in AlbumIds :
        AlbumResumes(m) =>
            /\ Sent(events', "resume")
            /\ ghost'.play.made
            /\ ghost'.play.file = MusicTarget(m, state'.music[m].current_track)
            /\ ghost'.play.start = state'.music[m].position]_vars

(***************************************************************************)
(* Properties of the end-of-track handling (Spec)                          *)
(***************************************************************************)
\* the reading of this iteration is the one of the last: the switch handler
\* does not run after the end-of-track check
SameReading ==
    player'.last_state = player.last_state /\ player'.last_podcast = player.last_podcast

\* the album session has a track after the current one
HasNextTrack ==
    /\ player.current_music_id # NoValue
    /\ player.current_music_track_index # NoValue
    /\ player.current_music_track_index + 1 < Len(player.current_music_tracks)

\* C18: the main loop advances only in MusicMode; when the current track is
\* not the last, the album entry stored is the next track at position 0, not
\* completed, play() gets the next track with start position 0 right after the
\* notification is taken, and the engine plays it from 0 when the load was
\* answered.
C18_AdvancePersistsAndPlaysNext ==
    [][Advanced(events') =>
        /\ player.current_mode = MUSIC_MODE
        /\ (HasNextTrack /\ SameReading) =>
            LET m == player.current_music_id
                next == player.current_music_track_index + 1
            IN  /\ state'.music[m] = [state.music[m] EXCEPT !.tracks = player.current_music_tracks,
                                                            !.current_track = next,
                                                            !.position = 0,
                                                            !.completed = FALSE]
                /\ player'.current_music_track_index = next
                /\ events' = <<"advance", "loadfile">>
                /\ ghost'.play = [made |-> TRUE, file |-> MusicTarget(m, next), start |-> 0]
                /\ ~ghost'.lost => (engine'.file = MusicTarget(m, next) /\ engine'.pos = 0)]_vars

\* C18: track 0 of album 1 has ended and track 1 is stored and plays from 0
C18_Witness ==
    /\ events = <<"advance", "loadfile">>
    /\ player.current_mode = MUSIC_MODE
    /\ state.music[1].current_track = 1 /\ state.music[1].position = 0
    /\ ~state.music[1].completed
    /\ ghost.play = [made |-> TRUE, file |-> MusicTarget(1, 1), start |-> 0]
    /\ engine.file = MusicTarget(1, 1) /\ engine.pos = 0
    /\ ~audio._is_idle /\ ~audio._is_paused

\* the album session is on its last track
OnLastTrack ==
    /\ player.current_music_id # NoValue
    /\ player.current_music_track_index # NoValue
    /\ player.current_music_tracks # <<>>
    /\ player.current_music_track_index + 1 >= Len(player.current_music_tracks)

\* C19: when the main loop advances on the last track of the album, the
\* stored album entry becomes completed with track 0 and position 0, the
\* supervisor is stopped and the selection is the one from before.
C19_LastTrackCompletesAlbum ==
    [][(Advanced(events') /\ OnLastTrack /\ SameReading) =>
        LET m == player.current_music_id
        IN  /\ state'.music[m].completed
            /\ state'.music[m].current_track = 0
            /\ state'.music[m].position = 0
            /\ audio'._is_idle
            /\ player'.current_podcast_index = player.current_podcast_index
            /\ player'.current_music_id = m]_vars

(***************************************************************************)
(* Invariants of the controller (Spec)                                     *)
(***************************************************************************)
\* C20: the controller never holds a podcast session and a music session at
\* once: current_podcast_id and current_music_id are not both set, and a
\* session's episode or track fields are set only with its id.
C20_AtMostOneSession ==
    /\ ~(player.current_podcast_id # NoValue /\ player.current_music_id # NoValue)
    /\ player.current_podcast_id = NoValue => player.current_episode_index = NoValue
    /\ player.current_music_id = NoValue =>
            (player.current_music_track_index = NoValue /\ player.current_music_tracks = <<>>)

\* C20: a music session is held in mode Playing after a switch to a podcast
\* without episodes failed, and no podcast session with it
C20_Witness ==
    /\ player.current_mode = PLAYING
    /\ player.last_podcast = 2
    /\ player.current_music_id = 1
    /\ player.current_podcast_id = NoValue
    /\ audio._is_idle

(***************************************************************************)
(* Properties of the stored positions (Spec)                               *)
(***************************************************************************)
\* C21: every position stored for an episode or for an album's track is at
\* least 0, whatever callbacks, pauses, stops, mode changes and queries
\* without a response have happened.
C21_StoredPositionsNonNegative ==
    /\ \A i \in PodcastIds : \A k \in 1..Len(state.podcasts[i].episodes) :
        state.podcasts[i].episodes[k].position >= 0
    /\ \A m \in AlbumIds : state.music[m].position >= 0

\* C21: a handler whose position query got no response while the engine was
\* past the start has stored position 0 for the session that plays
C21_Witness ==
    /\ ghost.query.made /\ ~ghost.query.ok /\ ghost.query.known > 0
    /\ RouteTarget(player) # NoTarget
    /\ StoredPosition(state, RouteTarget(player)) = 0
    /\ engine.pos > 0

(***************************************************************************)
(* Properties of the episode lists and of the refresh (SpecFeed)           *)
(***************************************************************************)
\* C22: each podcast's current_index is a valid index into its episode list,
\* or the list is empty.
C22_CurrentIndexValid ==
    \A i \in PodcastIds :
        \/ state.podcasts[i].episodes = <<>>
        \/ /\ 0 <= state.podcasts[i].current_index
           /\ state.podcasts[i].current_index < Len(state.podcasts[i].episodes)

(***************************************************************************)
(* Properties of AudioPlayer.pause and AudioPlayer.stop (Spec)             *)
(***************************************************************************)
\* the supervisor holds a file that plays, past its start; the first pause()
\* or stop() of the next handler finds it so unless a track advance comes first
PlayingPastStart ==
    /\ audio.current_file # NoTarget /\ ~audio._is_idle /\ ~audio._is_paused
    /\ engine.file = audio.current_file /\ engine.pos > 0
    /\ ~Advanced(events')

\* the position callback is called before the first such command of the step
CallbackBefore(ev, command) ==
    Sent(ev, command) =>
        /\ Sent(ev, "callback")
        /\ FirstIndex(ev, "callback") < FirstIndex(ev, command)

\* C23: when pause() or stop() is called while a file is loaded and playing,
\* the position callback is called with a position snapshot before the pause
\* command (set_property pause) or the stop command is sent to the engine.
C23_FlushBeforePauseOrStop ==
    [][PlayingPastStart =>
        /\ CallbackBefore(events', "set_property")
        /\ CallbackBefore(events', "stop")]_vars

(***************************************************************************)
(* Properties of AudioPlayer.play (SpecAudio)                              *)
(***************************************************************************)
\* C24: a play() with a path that does not exist sends no loadfile command
\* and leaves the supervisor idle (is_playing() false), whatever state it was
\* in before the call.
C24_MissingFileLeavesIdle ==
    [][Sent(events', "not_found") =>
        /\ ~Sent(events', "loadfile")
        /\ (audio'._is_paused \/ audio'._is_idle)]_vars

\* the step is a scheduled refresh
Refreshes == Sent(events', "refresh")

\* C25: a scheduled refresh sends no command to the supervisor (no load,
\* pause, stop or seek), leaves the supervisor, the engine, the mode, the
\* selection and the session unchanged, and afterwards the status indicator
\* shows Playing if is_playing() and Paused otherwise.
C25_RefreshLeavesPlayback ==
    [][Refreshes =>
        /\ events' = <<"refresh">>
        /\ audio' = audio
        /\ engine' = engine
        /\ player' = [player EXCEPT !.led = IF ~audio._is_paused /\ ~audio._is_idle
                                            THEN PLAYING ELSE PAUSED]]_vars

\* C25: a refresh has replaced the episode list of the podcast that plays by
\* a new episode, and the podcast still plays with the indicator on Playing
C25_Witness ==
    /\ events = <<"refresh">>
    /\ audio.current_file = PodcastTarget(1, 0)
    /\ ~audio._is_paused /\ ~audio._is_idle
    /\ engine.file = PodcastTarget(1, 0) /\ ~engine.pause
    /\ player.current_mode = PLAYING /\ player.led = PLAYING
    /\ state.podcasts[1].episodes = <<NewEpisode(3)>>

(***************************************************************************)
(* Properties of switch_to_podcast without episodes (Spec)                 *)
(***************************************************************************)
\* LEDState.WARNING
WARNING == "warning"

\* the main loop handles a change to mode Playing with the knob on a podcast
\* that has no episodes
SwitchesToEmptyPodcast ==
    /\ ModeChangesTo(PLAYING)
    /\ player'.last_podcast \in PodcastIds
    /\ state.podcasts[player'.last_podcast].episodes = <<>>

\* C26: when the podcast at the selection has no episodes, switching to it
\* leaves the supervisor idle and sets the status indicator to Warning.
C26_EmptyPodcastWarns ==
    [][SwitchesToEmptyPodcast =>
        /\ audio'._is_idle
        /\ player'.led = WARNING]_vars

\* the part of C26 about the supervisor alone
C26_EmptyPodcastIdle ==
    [][SwitchesToEmptyPodcast => audio'._is_idle /\ player'.led = PAUSED]_vars

C28_RotaryDecoding ==
    samples # <<>> =>
        LET raw == LastRaw(samples)
        IN  /\ Cardinality(pins.lows) = 1 => raw \in pins.lows /\ raw \in 1..NumLines
            /\ Cardinality(pins.lows) = 0 => raw = 0
            /\ Cardinality(pins.lows) > 1 => raw = -1

\* C28: only the twelfth line is asserted and the raw value is 12
C28_Witness == pins.lows = {NumLines} /\ samples = <<NumLines>>

\* C29: the mode of a reading is decoded from the two mode lines of the same
\* poll, for each of their four combinations: only play asserted gives
\* Playing, only music asserted MusicMode, none Paused, both Paused.
C29_ModeDecoding ==
    reading[1] # None =>
        reading[1] =
            IF pins.pin_play = LOW /\ pins.pin_music = HIGH THEN PLAYING
            ELSE IF pins.pin_play = HIGH /\ pins.pin_music = LOW THEN MUSIC_MODE
            ELSE PAUSED

\* C29: both mode lines are asserted and the reading says Paused
C29_Witness ==
    /\ pins.pin_play = LOW /\ pins.pin_music = LOW
    /\ reading[1] = PAUSED

(***************************************************************************)
(* Properties of the control channel's lock (SpecChan)                     *)
(***************************************************************************)
\* the threads inside the connect/send/receive section of _send_command
InIo == {t \in Threads : thr[t].pc = "io"}

\* C30: at most one thread is inside the connect/send/receive section of
\* _send_command at any time, and that thread holds _socket_lock.
C30_ChannelMutualExclusion ==
    /\ Cardinality(InIo) <= 1
    /\ \A t \in InIo : chan.lock = t

\* C30: the position thread is inside the section while the main loop waits
\* for the lock with a command of its own
C30_Witness ==
    /\ \E t \in Samplers : thr[t].pc = "io" /\ chan.lock = t
    /\ thr[MainThread].pc = "acquire"

(***************************************************************************)
(* Properties of the position threads and of the retry (SpecChan)          *)
(***************************************************************************)
\* the position threads that have been started and have not ended
AliveSamplers == {s \in Samplers : thr[s].pc \notin {"unborn", "dead"}}

\* C31: at most one position thread is alive at any time, across process
\* deaths and restarts: two position threads never run side by side.
C31_OneSamplerAlive == Cardinality(AliveSamplers) <= 1

\* thread t leaves the except branch of its first send attempt
FirstAttemptFailed(t) ==
    thr[t].pc = "except" /\ thr[t].retry /\ thr'[t].pc # "except"

\* C32: a command whose first send attempt fails while the mpv process is
\* alive is sent a second time before _send_command returns the failure.
C32_AliveFailureRetried ==
    [][\A t \in Threads :
        (FirstAttemptFailed(t) /\ chan.process = "alive") =>
            thr'[t].pc \in {"acquire", "io"}]_vars

\* C33: a command whose first send attempt fails while the mpv process is
\* dead makes _send_command restart the process once, and the one further
\* send attempt that follows can enter the connect/send/receive section: the
\* call neither ends in an exception nor waits for a lock its own thread holds.
C33_DeadFailureRelaunchesOnce ==
    [][\A t \in Threads :
        /\ (FirstAttemptFailed(t) /\ chan.process = "dead") => thr'[t].pc = "restart"
        /\ (thr'[t].pc = "acquire" /\ ~thr'[t].retry) => chan'.lock # t]_vars

\* the first part of C33 alone: the failed attempt leads to a restart
C33_DeadFailureRestarts ==
    [][\A t \in Threads :
        (FirstAttemptFailed(t) /\ chan.process = "dead") => thr'[t].pc = "restart"]_vars

(* Properties of the supervisor when mpv dies (SpecProcess) *)
\* C34: whenever the mpv process has died, the supervisor is idle:
\* is_playing() is false, whatever it was before the process died.
C34_DeadProcessIdle == chan.process = "dead" => ~is_playing(World(1, 0))

\* the second part of C34: a play() that finds the process dead and sends
\* loadfile has restarted the process
C34_PlayRelaunchesFirst ==
    [][(chan.process = "dead" /\ \E i \in 1..Len(events') : events'[i] = "loadfile")
          => chan'.process = "alive"]_vars

ReadingHandled ==
    <<player'.last_state, player'.last_podcast>> # <<player.last_state, player.last_podcast>>
\* C36: after handle_switch_change has processed a reading with a selection,
\* current_podcast_index is that reading's selection, also when the mode
\* changed in the same reading and when the session could not be loaded.
C36_CurrentSelectionFollowsReading ==
    [][(ReadingHandled /\ player'.last_podcast # NoValue) =>
          player'.current_podcast_index = player'.last_podcast]_vars

(* Properties of albums with missing track files (SpecMissing) *)
\* C37: skipping a missing track terminates: no handler ends in the
\* RecursionError of an unbounded chain of _play_music_track and
\* _advance_music_track calls.
C37_SkipTerminates == ~Sent(events, "RecursionError")

(* Properties of positions stored after a scheduled refresh (SpecRefresh) *)
\* the position stored for the j-th episode of podcast pid changes in this
\* step, which leaves the podcast's episode list as it was
PositionStored(pid, j) ==
    LET eps == state.podcasts[pid].episodes
        eps1 == state'.podcasts[pid].episodes
    IN  /\ j <= Len(eps) /\ Len(eps1) = Len(eps)
        /\ \A k \in 1..Len(eps) : eps1[k].guid = eps[k].guid
        /\ eps1[j].position # eps[j].position
\* C38: a position is only ever stored on the episode being played: when a
\* step changes the stored position of an episode, that episode has the guid
\* of the episode whose file the supervisor was last given, also after a
\* scheduled refresh has replaced the episode list.
C38_PositionStoredOnPlayedEpisode ==
    [][\A pid \in PodcastIds, j \in 1..max_episodes :
          PositionStored(pid, j) => state.podcasts[pid].episodes[j].guid = ghost.guid]_vars

(* Properties of positions stored after a failed query (Spec) *)
\* C39: a handler whose position query got no response while the engine is
\* past the start does not overwrite a stored position greater than 0 of the
\* active session with 0.
C39_FailedQueryKeepsStoredPosition ==
    [][(/\ ghost'.query.made /\ ~ghost'.query.ok
        /\ ~Advanced(events') /\ engine.pos > 0
        /\ StoredPosition(state, RouteTarget(player)) > 0) =>
          StoredPosition(state', RouteTarget(player)) > 0]_vars

====
